---- MODULE Spec2Model ----
(***************************************************************************)
(* Model of the notification core of kube-job-notifier:                    *)
(*   pkg/notification/slack.go  (message template, Slack notifier)         *)
(*   pkg/monitoring datadog     (service-check notifier)                   *)
(* Go strings are sequences of one-character strings, so that template     *)
(* execution, HTML escaping and concatenation are computed, not assumed.   *)
(***************************************************************************)
EXTENDS Integers, Sequences, FiniteSets, TLC

VARIABLES env, s, call, rParam, rText, ddEnv, dd, ddCalls

vars == <<env, s, call, rParam, rText, ddEnv, dd, ddCalls>>
slackVars == <<env, s, call>>
renderVars == <<rParam, rText>>
ddVars == <<ddEnv, dd, ddCalls>>

(***************************** bounds **************************************)
\* longest JobName / Namespace / Log drawn for the rendering specification
MaxLen == 2
\* number of Notify calls that may be in flight on the one notifier
NProcs == 2
\* number of SuccessEvent / FailEvent calls made on the metrics notifier
MaxEvents == 2

(***************************** strings *************************************)
EmptyStr == << >>
NL == <<"\n">>

RECURSIVE StringsUpTo(_, _)
\* every string over alphabet `chars` of length at most n
StringsUpTo(chars, n) ==
    IF n = 0 THEN {EmptyStr}
    ELSE LET shorter == StringsUpTo(chars, n - 1)
         IN  shorter \cup {Append(w, c) : w \in shorter, c \in chars}

\* html/template's replacement table for HTML text context
HTMLEscapeChar(c) ==
    CASE c = "&"  -> <<"&", "a", "m", "p", ";">>
      [] c = "<"  -> <<"&", "l", "t", ";">>
      [] c = ">"  -> <<"&", "g", "t", ";">>
      [] c = "\"" -> <<"&", "#", "3", "4", ";">>
      [] c = "'"  -> <<"&", "#", "3", "9", ";">>
      [] c = "+"  -> <<"&", "#", "4", "3", ";">>
      [] OTHER    -> <<c>>

RECURSIVE HTMLEscape(_)
HTMLEscape(str) ==
    IF str = EmptyStr THEN EmptyStr
    ELSE HTMLEscapeChar(Head(str)) \o HTMLEscape(Tail(str))

(************************* message template ********************************)
JobNameLabel == <<"*", "J", "o", "b", "N", "a", "m", "e", "*", ":", " ">>
NamespaceLabel == <<"*", "N", "a", "m", "e", "s", "p", "a", "c", "e", "*", ":", " ">>
LoglinkLabel == <<"*", "L", "o", "g", "l", "i", "n", "k", "*", ":", " ">>

TextNode(v) == [t |-> "text", v |-> v, f |-> "", body |-> << >>]
FieldNode(f) == [t |-> "field", v |-> EmptyStr, f |-> f, body |-> << >>]
IfNode(f, body) == [t |-> "if", v |-> EmptyStr, f |-> f, body |-> body]

\* a mis-ordered template with an unconditional Namespace line
SlackMessageTemplate_mut ==
    << TextNode(NL \o JobNameLabel), FieldNode("JobName"), TextNode(NL),
       IfNode("Log", << TextNode(<<" ">> \o LoglinkLabel), FieldNode("Log"),
                        TextNode(<<" ">>) >>),
       TextNode(NL),
       TextNode(<<" ">> \o NamespaceLabel), FieldNode("Namespace"),
       TextNode(<<" ">>),
       TextNode(NL) >>

SlackMessageTemplate ==
    << TextNode(NL \o JobNameLabel), FieldNode("JobName"), TextNode(NL),
       IfNode("Namespace", << TextNode(<<" ">> \o NamespaceLabel),
                              FieldNode("Namespace"), TextNode(<<" ">>) >>),
       TextNode(NL),
       IfNode("Log", << TextNode(<<" ">> \o LoglinkLabel), FieldNode("Log"),
                        TextNode(<<" ">>) >>),
       TextNode(NL) >>

RECURSIVE Execute(_, _)
\* tpl.Execute: text nodes are copied, {{.F}} is HTML-escaped, {{if .F}} tests
\* the field for the non-empty string
Execute(nodes, data) ==
    IF nodes = << >> THEN EmptyStr
    ELSE LET n == Head(nodes)
             out == CASE n.t = "text"  -> n.v
                      [] n.t = "field" -> HTMLEscape(data[n.f])
                      [] n.t = "if"    -> IF data[n.f] # EmptyStr
                                          THEN Execute(n.body, data)
                                          ELSE EmptyStr
         IN  out \o Execute(Tail(nodes), data)

MessageTemplateParam(jobName, namespace, log) ==
    [JobName |-> jobName, Namespace |-> namespace, Log |-> log]

\* parsing the constant template and executing it into a bytes.Buffer cannot
\* fail, so the error result is always nil
getSlackMessage(messageParam) == Execute(SlackMessageTemplate, messageParam)

(*************************** reading a message *****************************)
RECURSIVE SplitLines(_)
SplitLines(text) ==
    IF \A i \in 1..Len(text) : text[i] # "\n" THEN <<text>>
    ELSE LET k == CHOOSE i \in 1..Len(text) :
                      text[i] = "\n" /\ \A j \in 1..(i - 1) : text[j] # "\n"
         IN  <<SubSeq(text, 1, k - 1)>> \o SplitLines(SubSeq(text, k + 1, Len(text)))

Contains(str, sub) ==
    \E i \in 0..(Len(str) - Len(sub)) : SubSeq(str, i + 1, i + Len(sub)) = sub

\* the lines of `text` that carry `label`
LinesWith(text, label) ==
    LET ls == SplitLines(text) IN {i \in 1..Len(ls) : Contains(ls[i], label)}

(***************************** Slack notifier ******************************)
START == "start"
SUCCESS == "success"
FAILED == "failed"

slackColors == [Normal |-> "good", Warning |-> "warning", Danger |-> "danger"]

Procs == 1..NProcs

\* values the environment variables may hold ("" is unset)
ConfiguredToken == "xoxb-token"
ConfiguredChannel == "#jobs"
ConfiguredUsername == "bot"
DefaultChannels == {ConfiguredChannel, "#jobs-b"}
SucceedChannels == {"", "#ok"}
FailedChannels == {"", "#ng"}
EnvValues(name) ==
    CASE name = "SLACK_CHANNEL"         -> DefaultChannels
      [] name = "SLACK_SUCCEED_CHANNEL" -> SucceedChannels
      [] name = "SLACK_FAILED_CHANNEL"  -> FailedChannels
MutableEnvNames == {"SLACK_CHANNEL", "SLACK_SUCCEED_CHANNEL", "SLACK_FAILED_CHANNEL"}

\* the params the dispatcher passes to the Slack notifier
SlackJobName == <<"j">>
SlackNamespace == <<"n">>
RawLog == <<"o", "&">>
SlackParams ==
    {MessageTemplateParam(SlackJobName, SlackNamespace, l) : l \in {EmptyStr, RawLog}}
\* permalinks the file upload may answer with (URLs, never empty)
Permalinks == {<<"h", "/", "f">>}

NilErr == "nil"
UploadErr == "upload failed"
PostErr == "post failed"

\* func NewSlack: token, channel and username are read once
NewSlack(e) ==
    [token |-> e["SLACK_TOKEN"], channel |-> e["SLACK_CHANNEL"],
     username |-> e["SLACK_USERNAME"]]

\* `if succeedChannel != "" { s.channel = succeedChannel }` ignored
ResolveChannel_mut(override, stored) == stored

\* `if succeedChannel != "" { s.channel = succeedChannel }`
ResolveChannel(override, stored) == IF override # "" THEN override ELSE stored

\* NotifyFailed reading the success override
OverrideVar_mut(kind) == "SLACK_SUCCEED_CHANNEL"

\* the variable each Notify method hands to os.Getenv
OverrideVar(kind) ==
    IF kind = FAILED THEN "SLACK_FAILED_CHANNEL" ELSE "SLACK_SUCCEED_CHANNEL"

\* a pointer receiver: the callee's s.channel lands in the shared notifier
StoredAfterCall_mut(stored, local) == local

\* `func (s slack)`: the receiver is a copy, the notifier itself is not written
StoredAfterCall(stored, local) == stored

\* an upload whenever the method is not NotifyStart, with or without a log
NeedsUpload_mut(kind, messageParam) == kind # START

\* NotifyStart has no upload; the other two upload `if messageParam.Log != ""`
NeedsUpload(kind, messageParam) == kind # START /\ messageParam.Log # EmptyStr

\* the permalink is dropped and the raw log stays in the param
LogAfterUpload_mut(messageParam, file) == messageParam

\* `messageParam.Log = file.Permalink`
LogAfterUpload(messageParam, file) == [messageParam EXCEPT !.Log = file.Permalink]

\* notify swallowing the delivery error
NotifyResult_mut(ok) == NilErr

\* func notify: the PostMessage error is returned unmodified
NotifyResult(ok) == IF ok THEN NilErr ELSE PostErr

Attachment(kind, slackMessage) ==
    [Color |-> IF kind = FAILED THEN slackColors["Danger"] ELSE slackColors["Normal"],
     Title |-> CASE kind = START   -> "Job Start"
                 [] kind = SUCCESS -> "Job Success"
                 [] kind = FAILED  -> "Job Failed",
     Text  |-> slackMessage]

NoAttachment == [Color |-> "", Title |-> "", Text |-> EmptyStr]

IdleCall ==
    [pc |-> "idle", kind |-> "", param |-> MessageTemplateParam(EmptyStr, EmptyStr, EmptyStr),
     messageParam |-> MessageTemplateParam(EmptyStr, EmptyStr, EmptyStr),
     s |-> [token |-> "", channel |-> "", username |-> ""],
     attachment |-> NoAttachment, trace |-> << >>, err |-> NilErr]

\* the request api.UploadFile sends, with the backend's answer
UploadEvent(c, ok, permalink) ==
    [api |-> "UploadFile", token |-> c.s.token, channel |-> c.s.channel,
     Title |-> c.messageParam.Namespace \o <<"_">> \o c.messageParam.JobName,
     Content |-> c.messageParam.Log, Filetype |-> "txt",
     ok |-> ok, Permalink |-> permalink]

\* the request api.PostMessage sends, with the backend's answer
PostEvent(c, ok) ==
    [api |-> "PostMessage", token |-> c.s.token, channel |-> c.s.channel,
     attachment |-> c.attachment, username |-> c.s.username, ok |-> ok]

\* the upload error is logged and the method goes on to the message
AfterUploadError_mut(c) ==
    [c EXCEPT !.pc = "post",
              !.attachment = Attachment(c.kind, getSlackMessage(c.messageParam))]

\* `if err != nil { klog.Errorf(...); return err }` after uploadLog
AfterUploadError(c) == [c EXCEPT !.pc = "done", !.err = UploadErr]

\* entry of a Notify method up to its first API call: the override is read from
\* the environment, the receiver copy's channel is set, and, when no upload is
\* due, the message is rendered and the attachment built
Enter(p, kind, param) ==
    /\ call[p].pc = "idle"
    \* calls are numbered in the order they are entered
    /\ \A q \in Procs : q < p => call[q].pc # "idle"
    /\ LET local == [s EXCEPT !.channel = ResolveChannel(env[OverrideVar(kind)], s.channel)]
           c0 == [IdleCall EXCEPT !.kind = kind, !.param = param,
                                  !.messageParam = param, !.s = local]
       IN  /\ call' = [call EXCEPT ![p] =
                         IF NeedsUpload(kind, param)
                         THEN [c0 EXCEPT !.pc = "upload"]
                         ELSE [c0 EXCEPT !.pc = "post",
                                         !.attachment =
                                             Attachment(kind, getSlackMessage(param))]]
           /\ s' = StoredAfterCall(s, local)
    /\ UNCHANGED env

NotifyStart(p, param) == Enter(p, START, param)

NotifySuccess(p, param) == Enter(p, SUCCESS, param)

NotifyFailed(p, param) == Enter(p, FAILED, param)

\* func uploadLog and the caller's handling of its result
uploadLog(p) ==
    /\ call[p].pc = "upload"
    /\ \/ \E link \in Permalinks :
             LET c  == call[p]
                 mp == LogAfterUpload(c.messageParam, [Permalink |-> link])
             IN  call' = [call EXCEPT ![p] =
                            [c EXCEPT !.trace = Append(c.trace, UploadEvent(c, TRUE, link)),
                                      !.messageParam = mp,
                                      !.attachment = Attachment(c.kind, getSlackMessage(mp)),
                                      !.pc = "post"]]
       \/ LET c == call[p]
          IN  call' = [call EXCEPT ![p] =
                         AfterUploadError(
                             [c EXCEPT !.trace =
                                  Append(c.trace, UploadEvent(c, FALSE, EmptyStr))])]
    /\ UNCHANGED <<env, s>>

\* func notify and the method's return
notify(p) ==
    /\ call[p].pc = "post"
    /\ \E ok \in BOOLEAN :
          LET c == call[p]
          IN  call' = [call EXCEPT ![p] =
                         [c EXCEPT !.trace = Append(c.trace, PostEvent(c, ok)),
                                   !.err = NotifyResult(ok),
                                   !.pc = "done"]]
    /\ UNCHANGED <<env, s>>

\* the process environment changes between two steps of the notifier
Setenv(name, value) ==
    /\ env[name] # value
    /\ env' = [env EXCEPT ![name] = value]
    /\ UNCHANGED <<s, call>>

\* the state after NewSlack() has run in the configured environment
InitSlack ==
    /\ env \in {[SLACK_TOKEN |-> ConfiguredToken, SLACK_CHANNEL |-> ConfiguredChannel,
                 SLACK_USERNAME |-> ConfiguredUsername,
                 SLACK_SUCCEED_CHANNEL |-> a, SLACK_FAILED_CHANNEL |-> b] :
                 a \in SucceedChannels, b \in FailedChannels}
    /\ s = NewSlack(env)
    /\ call = [p \in Procs |-> IdleCall]

SlackIdle ==
    /\ env = [SLACK_TOKEN |-> ConfiguredToken, SLACK_CHANNEL |-> ConfiguredChannel,
              SLACK_USERNAME |-> ConfiguredUsername,
              SLACK_SUCCEED_CHANNEL |-> "", SLACK_FAILED_CHANNEL |-> ""]
    /\ s = NewSlack(env)
    /\ call = [p \in Procs |-> IdleCall]

(************************** rendering, on its own **************************)
RenderParams ==
    {MessageTemplateParam(j, n, l) :
        j \in StringsUpTo({"j", "-"}, MaxLen),
        n \in StringsUpTo({"n"}, MaxLen),
        l \in StringsUpTo({"o", "&", "\n"}, MaxLen)}

InitRender ==
    /\ rParam \in RenderParams
    /\ rText = EmptyStr

RenderIdle ==
    /\ rParam = MessageTemplateParam(EmptyStr, EmptyStr, EmptyStr)
    /\ rText = EmptyStr

\* one call of getSlackMessage on the drawn param
Render ==
    /\ rText = EmptyStr
    /\ rText' = getSlackMessage(rParam)
    /\ UNCHANGED rParam

(**************************** Datadog notifier *****************************)
serviceCheckName == "kube_job_notifier.job.status"
hostName == "kube-job-notifier"
defaultStatsAddrUDS == "unix:///var/run/datadog/dsd.socket"

JobNameTag == <<"j", "o", "b", "_", "n", "a", "m", "e", ":">>
NamespaceTag == <<"n", "a", "m", "e", "s", "p", "a", "c", "e", ":">>

JobInfo(name, namespace) == [Name |-> name, Namespace |-> namespace]
JobInfos ==
    {JobInfo(n, ns) : n \in {<<"e">>, <<"e", "-", "x">>}, ns \in {EmptyStr, <<"d">>}}

\* JobInfo.getJobName: the Name without its generated suffix, the part after the
\* last "-" (a Name without "-" is returned as it is)
getJobName(jobInfo) ==
    LET name == jobInfo.Name
        dashes == {i \in 1..Len(name) : name[i] = "-"}
    IN  IF dashes = {} THEN name
        ELSE SubSeq(name, 1, (CHOOSE i \in dashes : \A k \in dashes : k <= i) - 1)

NilClient == [isNil |-> TRUE, addr |-> "", Tags |-> << >>, Namespace |-> ""]
ErrNoClient == "statsd client is nil"
ErrWrite == "write failed"

\* FailEvent reporting the healthy status
FailStatus_mut == "Ok"

\* `Status: statsd.Critical`
FailStatus == "Critical"

SuccessStatus == "Ok"

InitDatadog ==
    /\ ddEnv \in {[DD_TAGS |-> t, DD_NAMESPACE |-> n] :
                    t \in {"", "env:prod"}, n \in {"", "kjn."}}
    /\ dd = [pc |-> "start", client |-> NilClient]
    /\ ddCalls = << >>

DatadogIdle ==
    /\ ddEnv = [DD_TAGS |-> "", DD_NAMESPACE |-> ""]
    /\ dd = [pc |-> "start", client |-> NilClient]
    /\ ddCalls = << >>

\* func newDatadog. statsd.New answers (client, nil) or (nil, err); an error is
\* logged and the function goes on, so that the two assignments through the nil
\* client are nil pointer dereferences: the goroutine panics
newDatadog ==
    /\ dd.pc = "start"
    /\ \E created \in BOOLEAN :
          LET client == IF created
                        THEN [isNil |-> FALSE, addr |-> defaultStatsAddrUDS,
                              Tags |-> << >>, Namespace |-> ""]
                        ELSE NilClient
              tags == ddEnv["DD_TAGS"]
              namespace == ddEnv["DD_NAMESPACE"]
              tagged == IF tags # "" THEN [client EXCEPT !.Tags = <<tags>>] ELSE client
              prefixed == IF namespace # ""
                          THEN [tagged EXCEPT !.Namespace = namespace] ELSE tagged
          IN  IF client.isNil /\ (tags # "" \/ namespace # "")
              THEN dd' = [pc |-> "panicked", client |-> NilClient]
              ELSE dd' = [pc |-> "ready", client |-> prefixed]
    /\ UNCHANGED <<ddEnv, ddCalls>>

ServiceCheck(status, message, jobInfo) ==
    [Name |-> serviceCheckName, Status |-> status, Message |-> message,
     Hostname |-> hostName,
     Tags |-> << JobNameTag \o getJobName(jobInfo),
                 NamespaceTag \o jobInfo.Namespace >>]

\* the one d.client.ServiceCheck(sc) call of an event method and its return: a
\* nil client answers ErrNoClient, a live one the outcome of the write
Emit(op, sc, jobInfo) ==
    /\ dd.pc = "ready"
    /\ Len(ddCalls) < MaxEvents
    /\ \E werr \in {NilErr, ErrWrite} :
          LET err == IF dd.client.isNil THEN ErrNoClient ELSE werr
          IN  ddCalls' = Append(ddCalls,
                  [op |-> op, jobInfo |-> jobInfo,
                   attempts |-> << [sc |-> sc, err |-> err] >>,
                   err |-> err])
    /\ UNCHANGED <<ddEnv, dd>>

SuccessEvent(jobInfo) ==
    Emit("SuccessEvent", ServiceCheck(SuccessStatus, "Job succeed", jobInfo), jobInfo)

FailEvent(jobInfo) ==
    Emit("FailEvent", ServiceCheck(FailStatus, "Job failed", jobInfo), jobInfo)

(***************************** specifications ******************************)
Init == InitSlack /\ RenderIdle /\ DatadogIdle

InitRenderOnly == SlackIdle /\ InitRender /\ DatadogIdle

InitDatadogOnly == SlackIdle /\ RenderIdle /\ InitDatadog

Next ==
    \/ \E p \in Procs, param \in SlackParams : NotifyStart(p, param) /\ UNCHANGED <<renderVars, ddVars>>
    \/ \E p \in Procs, param \in SlackParams : NotifySuccess(p, param) /\ UNCHANGED <<renderVars, ddVars>>
    \/ \E p \in Procs, param \in SlackParams : NotifyFailed(p, param) /\ UNCHANGED <<renderVars, ddVars>>
    \/ \E p \in Procs : uploadLog(p) /\ UNCHANGED <<renderVars, ddVars>>
    \/ \E p \in Procs : notify(p) /\ UNCHANGED <<renderVars, ddVars>>
    \/ \E name \in MutableEnvNames : \E value \in EnvValues(name) :
          Setenv(name, value) /\ UNCHANGED <<renderVars, ddVars>>

Spec == Init /\ [][Next]_vars

NextRender == Render /\ UNCHANGED <<slackVars, ddVars>>

SpecRender == InitRenderOnly /\ [][NextRender]_vars

NextDatadog ==
    \/ newDatadog /\ UNCHANGED <<slackVars, renderVars>>
    \/ \E jobInfo \in JobInfos : SuccessEvent(jobInfo) /\ UNCHANGED <<slackVars, renderVars>>
    \/ \E jobInfo \in JobInfos : FailEvent(jobInfo) /\ UNCHANGED <<slackVars, renderVars>>

SpecDatadog == InitDatadogOnly /\ [][NextDatadog]_vars

(******************************* claims ************************************)
Entered(p) == call[p].pc # "idle"
Done(p) == call[p].pc = "done"
Uploads(c) == {i \in 1..Len(c.trace) : c.trace[i].api = "UploadFile"}
Posts(c) == {i \in 1..Len(c.trace) : c.trace[i].api = "PostMessage"}
WithLog(c) == c.kind \in {SUCCESS, FAILED} /\ c.param.Log # EmptyStr

\* what follows the Loglink label on the message's Loglink line, without the
\* blank the template puts after it
LoglinkOf(text) ==
    LET ls == SplitLines(text)
        line == ls[CHOOSE i \in LinesWith(text, LoglinkLabel) : TRUE]
        from == Len(LoglinkLabel) + 2
    IN  SubSeq(line, from, Len(line) - 1)

\* C1: in a NotifySuccess or NotifyFailed call with a non-empty Log the upload
\* has returned before the message is built or posted: a call about to post has
\* its successful upload behind it, every PostMessage of the call comes after a
\* successful UploadFile of the raw log in the same call, and the Loglink line of
\* the posted text is that upload's permalink, not the raw log.
C1_UploadBeforePost ==
    \A p \in Procs :
        LET c == call[p]
        IN  WithLog(c) =>
              /\ c.pc = "post" => \E j \in Uploads(c) : c.trace[j].ok
              /\ \A i \in Posts(c) :
                    \E j \in Uploads(c) :
                       /\ j < i
                       /\ c.trace[j].ok
                       /\ c.trace[j].Content = c.param.Log
                       /\ c.trace[j].Permalink # c.param.Log
                       /\ LinesWith(c.trace[i].attachment.Text, LoglinkLabel) # {}
                       /\ LoglinkOf(c.trace[i].attachment.Text) = c.trace[j].Permalink
                       /\ ~Contains(c.trace[i].attachment.Text, HTMLEscape(c.param.Log))

C1_Witness ==
    \E p \in Procs :
        /\ call[p].kind = SUCCESS /\ call[p].param.Log = RawLog
        /\ Done(p) /\ call[p].err = NilErr
        /\ Len(call[p].trace) = 2

\* C2: when the log upload of a call fails, the call has returned the upload
\* error and that failed upload is the last thing the call did: it rendered no
\* message and posted none.
C2_UploadFailureAborts ==
    \A p \in Procs :
        LET c == call[p]
        IN  \A j \in Uploads(c) :
               ~c.trace[j].ok =>
                  /\ Done(p)
                  /\ c.err = UploadErr
                  /\ Posts(c) = {}
                  /\ c.attachment = NoAttachment
                  /\ Len(c.trace) = j

C2_Witness ==
    \E p \in Procs :
        /\ call[p].kind = FAILED /\ Done(p) /\ call[p].err = UploadErr
        /\ Len(call[p].trace) = 1 /\ ~call[p].trace[1].ok

\* the channel the spec gives an event kind in environment e with default d
ExpectedChannel(kind, e, d) ==
    IF kind = FAILED
    THEN (IF e["SLACK_FAILED_CHANNEL"] # "" THEN e["SLACK_FAILED_CHANNEL"] ELSE d)
    ELSE (IF e["SLACK_SUCCEED_CHANNEL"] # "" THEN e["SLACK_SUCCEED_CHANNEL"] ELSE d)

\* C3: the step that enters a call fixes one channel for it, the override of its
\* event kind (success override for NotifyStart and NotifySuccess, failure override
\* for NotifyFailed) when that is non-empty and the default channel otherwise; the
\* channel never changes during the call, and every upload and post of the call
\* targets it.
C3_OneChannelByKind ==
    [][\A p \in Procs :
          call'[p].pc # "idle" =>
             /\ call[p].pc = "idle" =>
                   call'[p].s.channel = ExpectedChannel(call'[p].kind, env, s.channel)
             /\ call[p].pc # "idle" => call'[p].s.channel = call[p].s.channel
             /\ \A i \in 1..Len(call'[p].trace) :
                   call'[p].trace[i].channel = call'[p].s.channel]_vars

C3_Witness ==
    \E p \in Procs :
        /\ call[p].kind = FAILED /\ Done(p) /\ Len(call[p].trace) = 2
        /\ call[p].trace[1].channel = "#ng" /\ call[p].trace[2].channel = "#ng"
        /\ \E q \in Procs :
              /\ call[q].kind = START /\ Done(q)
              /\ call[q].trace[1].channel = ConfiguredChannel

\* C4 as claimed: a NotifySuccess or NotifyFailed call that returned an error has
\* left no effect on the chat backend (no upload and no post of it succeeded).
C4_NoPartialSuccess ==
    \A p \in Procs :
        (Done(p) /\ call[p].kind \in {SUCCESS, FAILED} /\ call[p].err # NilErr) =>
            \A i \in 1..Len(call[p].trace) : ~call[p].trace[i].ok

\* C4 as amended: a returned call made at most one upload and one post (no retry);
\* it returns nil exactly when its message was posted; a call that returns an error
\* has posted no message, and its uploaded log artifact remains in the channel
\* exactly when the error is the post's and the call had a log to upload.
C4_ErrorLeavesOnlyTheUpload ==
    \A p \in Procs :
        LET c == call[p]
        IN  Done(p) =>
              /\ Cardinality(Uploads(c)) <= 1
              /\ Cardinality(Posts(c)) <= 1
              /\ c.err = NilErr <=> \E i \in Posts(c) : c.trace[i].ok
              /\ c.err # NilErr =>
                    ((\E j \in Uploads(c) : c.trace[j].ok)
                        <=> (c.err = PostErr /\ WithLog(c)))

C4_Witness ==
    \E p \in Procs :
        /\ Done(p) /\ call[p].kind = SUCCESS /\ call[p].err = PostErr
        /\ Len(call[p].trace) = 2
        /\ call[p].trace[1].api = "UploadFile" /\ call[p].trace[1].ok
        /\ ~call[p].trace[2].ok

\* C5: a call whose param.Log is empty makes no upload and is never waiting for
\* one, NotifyStart makes none whatever its param, and a message posted for a param
\* with empty Log has no Loglink line.
C5_NoUploadWithoutLog ==
    \A p \in Procs :
        LET c == call[p]
        IN  Entered(p) =>
              /\ (c.kind = START \/ c.param.Log = EmptyStr) =>
                    (Uploads(c) = {} /\ c.pc # "upload")
              /\ c.param.Log = EmptyStr =>
                    \A i \in Posts(c) :
                       LinesWith(c.trace[i].attachment.Text, LoglinkLabel) = {}

C5_Witness ==
    \E p, q \in Procs :
        /\ call[p].kind = START /\ call[p].param.Log = RawLog /\ Done(p)
        /\ Len(call[p].trace) = 1
        /\ call[q].kind = SUCCESS /\ call[q].param.Log = EmptyStr /\ Done(q)
        /\ Len(call[q].trace) = 1

\* C6: the text rendered for a param has exactly one JobName line, which is the
\* label followed by the escaped JobName; a Namespace line exactly when Namespace
\* is non-empty and a Loglink line exactly when Log is non-empty, each at most
\* once; and the JobName line comes before the Namespace line, which comes before
\* the Loglink line.
C6_RenderedLines ==
    rText # EmptyStr =>
        LET ls == SplitLines(rText)
            J == LinesWith(rText, JobNameLabel)
            N == LinesWith(rText, NamespaceLabel)
            L == LinesWith(rText, LoglinkLabel)
        IN  /\ Cardinality(J) = 1
            /\ \A j \in J : ls[j] = JobNameLabel \o HTMLEscape(rParam.JobName)
            /\ Cardinality(N) = (IF rParam.Namespace # EmptyStr THEN 1 ELSE 0)
            /\ Cardinality(L) = (IF rParam.Log # EmptyStr THEN 1 ELSE 0)
            /\ \A j \in J : \A n \in N : j < n
            /\ \A n \in N : \A l \in L : n < l
            /\ \A j \in J : \A l \in L : j < l

C6_Witness ==
    /\ rText # EmptyStr
    /\ rParam.Namespace = EmptyStr
    /\ rParam.Log = <<"o", "&">>
    /\ LinesWith(rText, NamespaceLabel) = {}
    /\ LinesWith(rText, LoglinkLabel) # {}

\* C7: every SuccessEvent or FailEvent call made exactly one attempt to emit, of
\* the service-check kube_job_notifier.job.status with status Ok for SuccessEvent
\* and Critical for FailEvent, tagged job_name:<getJobName> and
\* namespace:<Namespace>, and returned that attempt's error (nil when it succeeded).
C7_OneServiceCheckPerEvent ==
    \A i \in 1..Len(ddCalls) :
        LET c == ddCalls[i]
        IN  /\ Len(c.attempts) = 1
            /\ c.attempts[1].sc.Name = "kube_job_notifier.job.status"
            /\ c.attempts[1].sc.Status =
                  (IF c.op = "SuccessEvent" THEN "Ok" ELSE "Critical")
            /\ c.attempts[1].sc.Tags =
                  << JobNameTag \o getJobName(c.jobInfo),
                     NamespaceTag \o c.jobInfo.Namespace >>
            /\ c.err = c.attempts[1].err

C7_Witness ==
    \E i, k \in 1..Len(ddCalls) :
        /\ ddCalls[i].op = "FailEvent" /\ ddCalls[i].err = ErrWrite
        /\ ddCalls[i].jobInfo.Name = <<"e", "-", "x">>
        /\ ddCalls[k].op = "SuccessEvent" /\ ddCalls[k].err = NilErr

\* C8 as claimed: the destination of an event kind is fixed at construction, so
\* a call resolves the channel that every earlier call of its kind resolved.
C8_DestinationFixedAtConstruction ==
    [][\A p, q \in Procs :
          (call[p].pc = "idle" /\ call'[p].pc # "idle"
             /\ call[q].pc # "idle" /\ call[q].kind = call'[p].kind)
          => call'[p].s.channel = call[q].s.channel]_vars

\* C8 as amended: the token, default channel and username are those of the
\* environment at construction and no later step changes them, a change of the
\* environment included; the overrides are read when a call is entered, so the
\* call resolves the override its kind has in the environment at that moment, and
\* the stored default when that override is empty.
C8_OverridesReadAtCall ==
    [][/\ s' = s
       /\ s.token = ConfiguredToken
       /\ s.channel = ConfiguredChannel
       /\ s.username = ConfiguredUsername
       /\ \A p \in Procs :
             (call[p].pc = "idle" /\ call'[p].pc # "idle") =>
                LET now == env[IF call'[p].kind = FAILED
                               THEN "SLACK_FAILED_CHANNEL"
                               ELSE "SLACK_SUCCEED_CHANNEL"]
                IN  /\ call'[p].s.channel = (IF now # "" THEN now ELSE ConfiguredChannel)
                    /\ call'[p].s.token = ConfiguredToken
                    /\ call'[p].s.username = ConfiguredUsername]_vars

C8_Witness ==
    /\ env["SLACK_CHANNEL"] # ConfiguredChannel
    /\ \E p, q \in Procs :
          /\ p < q
          /\ call[p].kind = SUCCESS /\ call[q].kind = SUCCESS
          /\ call[p].s.channel = "#ok"
          /\ call[q].s.channel = ConfiguredChannel

\* C9: whatever calls have run or are running, the notifier still holds the
\* token, default channel and username it was constructed with, and every call
\* uploads and posts only to its own kind's override or to the default channel:
\* a NotifyFailed call never to the success override, the other two never to the
\* failure override.
C9_CallsIndependent ==
    /\ s = [token |-> ConfiguredToken, channel |-> ConfiguredChannel,
            username |-> ConfiguredUsername]
    /\ \A p \in Procs :
          \A i \in 1..Len(call[p].trace) :
             /\ call[p].trace[i].token = ConfiguredToken
             /\ call[p].trace[i].channel \in
                   (IF call[p].kind = FAILED
                    THEN {ConfiguredChannel} \cup (FailedChannels \ {""})
                    ELSE {ConfiguredChannel} \cup (SucceedChannels \ {""}))

C9_Witness ==
    \E p, q \in Procs :
        /\ p < q
        /\ call[p].kind = SUCCESS /\ call[p].s.channel = "#ok" /\ Posts(call[p]) # {}
        /\ call[q].kind = FAILED /\ call[q].s.channel = ConfiguredChannel
        /\ Posts(call[q]) # {}
        /\ env["SLACK_SUCCEED_CHANNEL"] = "#ok"

\* C10 as claimed: construction of the metrics notifier never crashes.
C10_ConstructionCompletes == dd.pc # "panicked"

====
